---- MODULE Spec2Model ----
(***************************************************************************)
(* Model of the xmake project manager's project-tree builder               *)
(* (ProjectTree::buildTree) and of its build-output parser                 *)
(* (XMakeBuildParser).                                                     *)
(*                                                                         *)
(* A file path (Utils::FilePath / QString) is the sequence of its          *)
(* '/'-separated segments, i.e. exactly QString::split('/') of the path    *)
(* string: "" is <<"">>, "/" is <<"","">>, "/p/a" is <<"","p","a">>,       *)
(* "inc/x.h" is <<"inc","x.h">>.  The tree is the sequence of its nodes in *)
(* creation order; node 1 is the XMakeProjectNode, a node's children are   *)
(* the nodes naming it as parent, in creation (= addNode) order.           *)
(***************************************************************************)
EXTENDS Integers, Sequences, FiniteSets, TLC

\* ------------------------------------------------------------------ paths

Empty == <<"">>
RootDir == <<"", "">>

\* The process working directory QFileInfo resolves relative paths against.
Cwd == <<"", "w">>

isEmpty(p) == p = Empty

isAbsolutePath(p) == Len(p) >= 2 /\ p[1] = ""

Last(s) == s[Len(s)]

Front(s) == SubSeq(s, 1, Len(s) - 1)

\* FilePath::parentDir: QDir::cleanPath(path + "/.."), empty for "", for the
\* root and when cleaning changes nothing ("..").
parentDir(p) ==
    IF isEmpty(p) \/ p = RootDir THEN Empty
    ELSE IF Last(p) = ".." THEN Empty
    ELSE IF p = <<".">> THEN <<"..">>
    ELSE IF isAbsolutePath(p)
         THEN IF Len(p) = 2 THEN RootDir ELSE Front(p)
         ELSE IF Len(p) = 1 THEN <<".">> ELSE Front(p)

\* FilePath::isChildOf(s): s is a string prefix of m, m is longer, and s ends
\* in '/' or the next character of m is '/'.
isChildOf(m, s) ==
    IF isEmpty(s) THEN FALSE
    ELSE IF Len(s) >= 2 /\ Last(s) = ""
         THEN /\ Len(m) >= Len(s)
              /\ SubSeq(m, 1, Len(s) - 1) = Front(s)
              /\ (Len(m) > Len(s) \/ m[Len(s)] # "")
         ELSE Len(m) > Len(s) /\ SubSeq(m, 1, Len(s)) = s

\* FilePath::pathAppended / operator/ with one '/'-free segment.
pathAppended(p, part) ==
    IF part = "" THEN p
    ELSE IF isEmpty(p) THEN <<part>>
    ELSE IF Len(p) >= 2 /\ Last(p) = "" THEN Append(Front(p), part)
    ELSE Append(p, part)

\* pathAppended with a relative path of several segments.
pathAppendedPath(p, rel) ==
    IF isEmpty(rel) THEN p
    ELSE IF isEmpty(p) THEN rel
    ELSE IF Len(p) >= 2 /\ Last(p) = "" THEN Front(p) \o rel
    ELSE p \o rel

\* QFileInfo::absoluteFilePath: relative paths are taken from the working
\* directory.
absoluteFilePath(p) ==
    IF isAbsolutePath(p) THEN p
    ELSE IF isEmpty(p) THEN Empty
    ELSE IF p = <<".">> THEN Cwd
    ELSE pathAppendedPath(Cwd, p)

\* QFileInfo::absolutePath: the directory of the absolute file path.
absolutePath(p) == parentDir(absoluteFilePath(p))

\* QFileInfo::canonicalFilePath on a file system where every directory named
\* exists and nothing is a symbolic link.
canonicalPath(p) == IF isEmpty(p) THEN Empty ELSE absoluteFilePath(p)

RECURSIVE narrow(_, _)
narrow(c, f) ==
    IF isEmpty(c) \/ isChildOf(f, c) THEN c ELSE narrow(parentDir(c), f)

\* Utils::FileUtils::commonPath(oldCommonPath, filePath).
commonPath(old, f) == canonicalPath(narrow(old, f))

\* FilePath::resolvePath of a relative path.
resolvePath(dir, rel) == pathAppendedPath(dir, rel)

\* QString::endsWith on a file name: the extension the name ends in.
Suffix(name) ==
    CASE name \in {"x.cpp", "y.cpp", "z.cpp"} -> ".cpp"
      [] name \in {"k.c"} -> ".c"
      [] name \in {"x.h", "y.h", "z.h"} -> ".h"
      [] name \in {"x.hpp"} -> ".hpp"
      [] name \in {"x.inl"} -> ".inl"
      [] name \in {"x.mpp", "y.mpp"} -> ".mpp"
      [] name \in {"x.hxx"} -> ".hxx"
      [] name \in {"x.tpp"} -> ".tpp"
      [] name \in {"x.ixx"} -> ".ixx"
      [] OTHER -> ""

endsWith(filename, suffix) == Suffix(Last(filename)) = suffix

\* ------------------------------------------------------------------ nodes

IsFolderKind(kind) == kind # "file"

IsVirtualFolderKind(kind) == kind \in {"group", "sources", "packages"}

Node(kind, path, name, ftype, listed) ==
    [kind |-> kind, path |-> path, name |-> name, ftype |-> ftype,
     listInProject |-> listed, parent |-> 0]

\* FolderNode::addNode: the node becomes the last child of parent.
addNode(ns, parent, node) == Append(ns, [node EXCEPT !.parent = parent])

Children(ns, n) == SelectSeq([i \in 1..Len(ns) |-> i], LAMBDA i: ns[i].parent = n)

RECURSIVE Preorder(_, _)
RECURSIVE PreorderAll(_, _)
Preorder(ns, n) ==
    IF IsFolderKind(ns[n].kind) THEN <<n>> \o PreorderAll(ns, Children(ns, n))
    ELSE <<n>>
PreorderAll(ns, cs) ==
    IF cs = <<>> THEN <<>> ELSE Preorder(ns, Head(cs)) \o PreorderAll(ns, Tail(cs))

FirstOr0(s) == IF s = <<>> THEN 0 ELSE Head(s)

\* FolderNode::findNode with the filter "filePath() == path": the first match
\* of the depth-first, parent-first walk from the project node, or 0.
findNode(ns, path) ==
    FirstOr0(SelectSeq(Preorder(ns, 1), LAMBDA i: ns[i].path = path))

folderNode_NeverFound(ns, parent, path) == 0

\* FolderNode::folderNode: the first child folder at that path, or 0.
folderNode(ns, parent, path) ==
    FirstOr0(SelectSeq(Children(ns, parent),
                       LAMBDA i: IsFolderKind(ns[i].kind) /\ ns[i].path = path))

\* ------------------------------------------------------- node construction

Null == Node("null", Empty, "", "", FALSE)

createVirtualNode(path, name) ==
    IF isEmpty(path) THEN Null ELSE Node("virtual", path, name, "", TRUE)

createGroupNode(path, name) ==
    LET node == createVirtualNode(path, name)
    IN IF node = Null THEN Null
       ELSE [node EXCEPT !.kind = "group", !.listInProject = FALSE]

createSourceGroupNode(path, name) ==
    LET node == createVirtualNode(path, name)
    IN IF node = Null THEN Null
       ELSE [node EXCEPT !.kind = "sources", !.listInProject = FALSE]

FileNode(path, ftype) == Node("file", path, "", ftype, TRUE)

FolderNode(path) == Node("folder", path, "", "", TRUE)

\* FilePath::baseName of a group path: its last segment (group segments
\* carry no '.').
baseName(path) == Last(path)

\* The lambda of findOrCreateGroup joining the group's segments.
RECURSIVE GroupPath(_, _)
GroupPath(path, group) ==
    IF group = <<>> THEN path
    ELSE GroupPath(pathAppended(path, Head(group)), Tail(group))

\* findOrCreateGroup(root, group): the tree after the call and the pointer
\* returned (0 is nullptr).
isNoGroup_MissingDot(group) == group = <<>> \/ group[1] = ""

\* The early return of findOrCreateGroup.
isNoGroup(group) == group = <<>> \/ group[1] = "." \/ group[1] = ""

RECURSIVE findOrCreateGroup(_, _)
findOrCreateGroup(ns, group) ==
    IF isNoGroup(group)
    THEN [nodes |-> ns, ptr |-> 0]
    ELSE LET path == GroupPath(Empty, group)
             node == findNode(ns, path)
         IN IF node # 0
            THEN [nodes |-> ns,
                  ptr |-> IF IsVirtualFolderKind(ns[node].kind) THEN node ELSE 0]
            ELSE LET up == findOrCreateGroup(ns, parentDir(path))
                     parent == IF up.ptr = 0 THEN 1 ELSE up.ptr
                 IN [nodes |-> addNode(up.nodes, parent,
                                       createGroupNode(path, baseName(path))),
                     ptr |-> Len(up.nodes) + 1]

\* recursiveFindOrCreateFolderNode's walk over the directory parts below the
\* folder: the tree after it and the folder reached.
RECURSIVE walkParts(_, _, _, _)
walkParts(ns, parent, path, parts) ==
    IF parts = <<>> THEN [nodes |-> ns, ptr |-> parent]
    ELSE LET next_path == pathAppended(path, Head(parts))
             next == folderNode(ns, parent, next_path)
         IN IF next # 0 THEN walkParts(ns, next, next_path, Tail(parts))
            ELSE walkParts(addNode(ns, parent, FolderNode(next_path)),
                           Len(ns) + 1, next_path, Tail(parts))

SkipEmptyParts(p) == SelectSeq(p, LAMBDA part: part # "")

\* FolderNode::addNestedNode(fileNode, {}, factory) on the folder `node`.
addNestedNode(ns, node, fileNode) ==
    LET base == ns[node].path
        directory == parentDir(fileNode.path)
        isRelative == /\ ~(isEmpty(base) \/ base = RootDir)
                      /\ (isChildOf(directory, base) \/ directory = base)
        parts == IF isRelative
                 THEN SubSeq(directory, Len(base) + 1, Len(directory))
                 ELSE SkipEmptyParts(directory)
        start == IF isRelative THEN base ELSE RootDir
        at == walkParts(ns, node, start, parts)
    IN addNode(at.nodes, at.ptr, fileNode)

RECURSIVE Flatten(_)
Flatten(groups) ==
    IF groups = <<>> THEN <<>> ELSE Head(groups) \o Flatten(Tail(groups))

HeaderLikeSuffixes == {".inl", ".hpp", ".h", ".mpp", ".hxx", ".tpp", ".ixx"}

IsSkippedSource_NoInl(filename) ==
    \E s \in HeaderLikeSuffixes \ {".inl"} : endsWith(filename, s)

\* The extension test of buildTargetSourceTree.
IsSkippedSource(filename) == \E s \in HeaderLikeSuffixes : endsWith(filename, s)

RECURSIVE addSourceFiles(_, _, _)
addSourceFiles(ns, node, files) ==
    IF files = <<>> THEN ns
    ELSE IF IsSkippedSource(Head(files)) THEN addSourceFiles(ns, node, Tail(files))
    ELSE addSourceFiles(
             addNestedNode(ns, node, FileNode(absoluteFilePath(Head(files)), "Source")),
             node, Tail(files))

buildTargetSourceTree_FirstGroupOnly(ns, node, sources) ==
    addSourceFiles(ns, node, IF sources = <<>> THEN <<>> ELSE Head(sources))

buildTargetSourceTree(ns, node, sources) == addSourceFiles(ns, node, Flatten(sources))

RECURSIVE buildTargetHeaderTree(_, _, _)
buildTargetHeaderTree(ns, node, headers) ==
    IF headers = <<>> THEN ns
    ELSE buildTargetHeaderTree(
             addNestedNode(ns, node, FileNode(absoluteFilePath(Head(headers)), "Header")),
             node, Tail(headers))

RECURSIVE addPackages(_, _, _, _)
addPackages(ns, parent, path, names) ==
    IF names = <<>> THEN ns
    ELSE addPackages(
             addNode(ns, parent,
                     [FileNode(pathAppended(path, Head(names)), "Unknown")
                          EXCEPT !.listInProject = FALSE]),
             parent, path, Tail(names))

\* buildTargetExternalPackagesTree together with the attachment of its result
\* under the target node.
buildTargetExternalPackagesTree(ns, target_node, path, packages, frameworks) ==
    LET parent == createVirtualNode(path, "External Packages")
    IN IF parent = Null THEN ns
       ELSE addPackages(
                addNode(ns, target_node,
                        [parent EXCEPT !.kind = "packages", !.listInProject = FALSE]),
                Len(ns) + 1, path, packages \o frameworks)

addTargetNode(ns, root, target) ==
    addNode(ns, root, Node("target", absolutePath(target.defined_in), target.name, "", TRUE))

\* ------------------------------------------------------------- buildTree

VARIABLES targets, bs_files, nodes, done, bs_done, returned, target_paths

\* The src_dir and project_dir arguments of buildTree.
src_dir == <<"", "p">>
project_dir == <<"", "p">>

\* The source_path lambda of the source loop.
source_path(source) ==
    IF isAbsolutePath(source) THEN source ELSE resolvePath(project_dir, source)

RECURSIVE sourcePaths(_)
sourcePaths(files) ==
    IF files = <<>> THEN <<>> ELSE <<source_path(Head(files))>> \o sourcePaths(Tail(files))

\* The base_directory loops: an empty accumulator is seeded with the parent
\* directory of the path at hand, a non-empty one is narrowed by commonPath.
RECURSIVE baseDirectory(_, _)
baseDirectory(base, paths) ==
    IF paths = <<>> THEN base
    ELSE baseDirectory(IF isEmpty(base) THEN parentDir(Head(paths))
                       ELSE commonPath(base, Head(paths)),
                       Tail(paths))

addSourceFilesNode(ns, parent, target) ==
    LET base_directory == baseDirectory(Empty, sourcePaths(Flatten(target.sources)))
        node == createSourceGroupNode(base_directory, "Source Files")
    IN IF node = Null THEN ns
       ELSE buildTargetSourceTree(addNode(ns, parent, node), Len(ns) + 1, target.sources)

addBucketNode(ns, parent, files, name) ==
    IF files = <<>> THEN ns
    ELSE LET base_directory == baseDirectory(Empty, files)
             node == createSourceGroupNode(base_directory, name)
         IN IF node = Null THEN ns
            ELSE buildTargetHeaderTree(addNode(ns, parent, node), Len(ns) + 1, files)

\* The 'External Packages' step of the loop body.
addExternalPackagesNode(ns, parent, target) ==
    IF target.packages = <<>> /\ target.frameworks = <<>> THEN ns
    ELSE buildTargetExternalPackagesTree(ns, parent, target.defined_in,
                                         target.packages, target.frameworks)

\* One iteration of buildTree's loop over the targets.
targetLoopBody(ns, target) ==
    LET found == findOrCreateGroup(ns, target.group)
        root == IF found.ptr = 0 THEN 1 ELSE found.ptr
        n1 == addTargetNode(found.nodes, root, target)
        parent == Len(n1)
        n2 == addSourceFilesNode(n1, parent, target)
        n3 == addBucketNode(n2, parent, target.modules, "Module Files")
        n4 == addBucketNode(n3, parent, target.headers, "Header Files")
    IN addExternalPackagesNode(n4, parent, target)

attachProjectFile_AlwaysAtRoot(ns, file) ==
    LET bs_file == IF isAbsolutePath(file) THEN file ELSE pathAppendedPath(src_dir, file)
    IN addNode(ns, 1, FileNode(absoluteFilePath(bs_file), "Project"))

\* One iteration of the post-pass over the build-system files.
attachProjectFile(ns, file) ==
    LET bs_file == IF isAbsolutePath(file) THEN file ELSE pathAppendedPath(src_dir, file)
        node == findNode(ns, absolutePath(bs_file))
    IN IF node # 0 /\ IsFolderKind(ns[node].kind)
       THEN addNode(ns, node, FileNode(absoluteFilePath(bs_file), "Project"))
       ELSE ns

XMakeProjectNode == Node("project", src_dir, "", "", TRUE)

\* ------------------------------------------------------ XMakeBuildParser

\* The parser as the class declares it: the dialect the constructor was given
\* and m_has_char_number; the progress notifications and the diagnostic tasks
\* it has emitted, the Result of the last handleLine call and the line of that
\* call.  handled counts the calls.
VARIABLES type, m_has_char_number, fatal_errors_of, progress, tasks, result,
          last_line, handled

\* An output line is the sequence of its tokens.
DigitTokens == {"7", "50", "100", "12", "3", "45", "99999999999"}

\* QString::toInt: the value, or -1 when the digits do not fit an int.
toInt(tok) ==
    CASE tok = "7" -> 7
      [] tok = "50" -> 50
      [] tok = "100" -> 100
      [] tok = "12" -> 12
      [] tok = "3" -> 3
      [] tok = "45" -> 45
      [] OTHER -> -1

RECURSIVE SkipSpaces(_, _)
SkipSpaces(line, k) ==
    IF k <= Len(line) /\ line[k] = " " THEN SkipSpaces(line, k + 1) ELSE k

m_progress_regex_NoSpaces(line) ==
    IF /\ Len(line) >= 4
       /\ line[1] = "["
       /\ line[2] \in DigitTokens
       /\ line[3] = "%"
       /\ line[4] = "]"
    THEN line[2] ELSE ""

\* m_progress_regex, ^\[\s*(\d+)\%\]: the digits captured, or "" when the
\* line does not match.
m_progress_regex(line) ==
    IF Len(line) >= 1 /\ line[1] = "["
    THEN LET k == SkipSpaces(line, 2)
         IN IF /\ Len(line) >= k + 2
               /\ line[k] \in DigitTokens
               /\ line[k + 1] = "%"
               /\ line[k + 2] = "]"
            THEN line[k] ELSE ""
    ELSE ""

NoMatch == [matched |-> FALSE, file |-> <<>>, line |-> "", column |-> "", text |-> <<>>]

Greatest(S) == CHOOSE k \in S : \A j \in S : j <= k

Least(S) == CHOOSE k \in S : \A j \in S : k <= j

\* m_msvc_error_regex, (.+)\((\d+)\): (.+)
m_msvc_error_regex(line) ==
    LET at == {k \in 2..(Len(line) - 3) :
                  line[k] = "(" /\ line[k + 1] \in DigitTokens /\ line[k + 2] = "): "}
    IN IF at = {} THEN NoMatch
       ELSE LET k == Greatest(at)
            IN [matched |-> TRUE, file |-> SubSeq(line, 1, k - 1), line |-> line[k + 1],
                column |-> "", text |-> line]

\* m_gcc_error_regex, error: (.*):(\d+):(\d+): (.*)
m_gcc_error_regex(line) ==
    LET starts == {e \in 1..Len(line) : line[e] = "error: "}
        at(e) == {k \in (e + 1)..(Len(line) - 4) :
                     /\ line[k] = ":" /\ line[k + 1] \in DigitTokens
                     /\ line[k + 2] = ":" /\ line[k + 3] \in DigitTokens
                     /\ line[k + 4] = ": "}
        good == {e \in starts : at(e) # {}}
    IN IF good = {} THEN NoMatch
       ELSE LET e == Least(good)
                k == Greatest(at(e))
            IN [matched |-> TRUE, file |-> SubSeq(line, e + 1, k - 1), line |-> line[k + 1],
                column |-> line[k + 3], text |-> SubSeq(line, e, Len(line))]

\* m_error_regex: the pattern of the dialect given to the constructor.
m_error_regex(line) ==
    IF type = "MSVC" THEN m_msvc_error_regex(line) ELSE m_gcc_error_regex(line)

\* extractProgress: the integer of a progress line, or -1 (no value).
extractProgress(line) ==
    LET digits == m_progress_regex(line)
    IN IF digits = "" THEN -1 ELSE toInt(digits)

\* The severity of a matched line: Error when the matched text carries an
\* error indicator, Warning otherwise.
taskType(match) ==
    IF \E k \in 1..Len(match.text) : match.text[k] \in {"error: ", "error "}
    THEN "Error" ELSE "Warning"

addTask(match) ==
    [type |-> taskType(match), file |-> match.file, line |-> toInt(match.line),
     column |-> IF m_has_char_number /\ match.column # "" THEN toInt(match.column) ELSE -1]

\* hasFatalErrors() const noexcept.  The class declares no member that records
\* a diagnostic: its members are the two regular expressions, the two pattern
\* strings and m_has_char_number, so the answer of the const method is a
\* function of m_has_char_number, fixed when the parser is built.
hasFatalErrors == fatal_errors_of[m_has_char_number]

handleLine_FallsThrough(line) ==
    IF m_progress_regex(line) # "" /\ extractProgress(line) >= 0
    THEN /\ progress' = Append(progress, extractProgress(line))
         /\ result' = "Done"
         /\ tasks' = tasks
    ELSE IF m_error_regex(line).matched
         THEN /\ tasks' = Append(tasks, addTask(m_error_regex(line)))
              /\ result' = "Done"
              /\ progress' = progress
         ELSE /\ result' = "NotHandled"
              /\ UNCHANGED <<progress, tasks>>

\* handleLine(line, type): the progress pattern first, then the pattern of the
\* dialect.
handleLine(line) ==
    IF m_progress_regex(line) # ""
    THEN IF extractProgress(line) >= 0
         THEN /\ progress' = Append(progress, extractProgress(line))
              /\ result' = "Done"
              /\ tasks' = tasks
         ELSE /\ result' = "NotHandled"
              /\ UNCHANGED <<progress, tasks>>
    ELSE IF m_error_regex(line).matched
         THEN /\ tasks' = Append(tasks, addTask(m_error_regex(line)))
              /\ result' = "Done"
              /\ progress' = progress
         ELSE /\ result' = "NotHandled"
              /\ UNCHANGED <<progress, tasks>>


\* ---------------------------------------------------------------- inputs

MaxTargets == 2
MaxSources == 2
MaxHeaders == 3
MaxPackages == 2
MaxBsFiles == 2

SeqUpTo(S, n) == UNION {[1..k -> S] : k \in 0..n}

TargetNames == <<"t1", "t2", "t3", "t4">>

DefaultTarget ==
    [name |-> "", group |-> <<>>, defined_in |-> <<"", "p", "xmake.lua">>,
     sources |-> <<>>, modules |-> <<>>, headers |-> <<>>,
     packages |-> <<>>, frameworks |-> <<>>]

GroupChoices == {<<>>, <<".">>, <<"">>, <<"g">>, <<"g", "h">>, <<"inc">>}

RelativeHeader == <<"inc", "x.h">>

\* Targets that differ in their grouping path (and in having a header given
\* relative to the project directory).
GroupTargets ==
    {[DefaultTarget EXCEPT !.group = g, !.headers = h] :
        g \in GroupChoices, h \in {<<>>, <<RelativeHeader>>}}

SourceFiles ==
    {<<"", "p", "a", "x.cpp">>, <<"", "p", "a", "b", "y.cpp">>, <<"a", "z.cpp">>,
     <<"", "k.c">>, <<"", "p", "a", "x.hpp">>, <<"", "p", "a", "x.h">>,
     <<"", "p", "a", "x.inl">>, <<"", "p", "a", "x.mpp">>, <<"", "p", "a", "x.hxx">>,
     <<"", "p", "a", "x.tpp">>, <<"", "p", "a", "x.ixx">>}

\* A list of source files as one source group, or split after its first file
\* into two.
SourceGroupLists ==
    {<<>>}
    \cup {<<l>> : l \in SeqUpTo(SourceFiles, MaxSources) \ {<<>>}}
    \cup {<<<<Head(l)>>, Tail(l)>> : l \in {m \in SeqUpTo(SourceFiles, MaxSources) : Len(m) >= 2}}

SourceTargets ==
    {[DefaultTarget EXCEPT !.sources = s, !.headers = h] :
        s \in SourceGroupLists, h \in {<<>>, <<<<"", "p", "a", "x.hpp">>>>}}

HeaderFiles ==
    {<<"", "p", "inc", "x.h">>, <<"", "p", "inc", "sub", "y.h">>, <<"", "x.hpp">>,
     <<"inc", "x.h">>, <<"b", "y.h">>, <<"c", "z.h">>}

ModuleLists ==
    {<<>>, <<<<"", "p", "a", "x.mpp">>>>,
     <<<<"", "p", "a", "x.mpp">>, <<"", "p", "m", "y.mpp">>>>}

HeaderTargets ==
    {[DefaultTarget EXCEPT !.headers = h, !.modules = m] :
        h \in SeqUpTo(HeaderFiles, MaxHeaders), m \in ModuleLists}

DefinedIn ==
    {<<"", "p", "xmake.lua">>, <<"", "p", "lib", "xmake.lua">>, <<"xmake.lua">>, Empty}

PackageTargets ==
    {[DefaultTarget EXCEPT !.defined_in = d, !.packages = pk, !.frameworks = fw] :
        d \in DefinedIn, pk \in SeqUpTo({"zlib", "fmt"}, MaxPackages),
        fw \in {<<>>, <<"zlib">>, <<"Cocoa">>}}

BsFiles ==
    {<<"xmake.lua">>, <<"", "p", "a", "xmake.lua">>, <<"", "p", "a", "b", "xmake.lua">>,
     <<"", "q", "xmake.lua">>}

Named(l) == [i \in 1..Len(l) |-> [l[i] EXCEPT !.name = TargetNames[i]]]

TargetLists ==
    SeqUpTo(GroupTargets, MaxTargets)
    \cup {<<t>> : t \in SourceTargets \cup HeaderTargets \cup PackageTargets}

BsTargetLists ==
    {<<t>> : t \in {u \in SourceTargets : Len(Flatten(u.sources)) <= 1}}
    \cup SeqUpTo({u \in GroupTargets : u.headers = <<>>}, 1)

treeVars == <<targets, bs_files, nodes, done, bs_done, returned, target_paths>>

parserVars ==
    <<type, m_has_char_number, fatal_errors_of, progress, tasks, result, last_line, handled>>

vars == <<treeVars, parserVars>>

MaxLines == 2

Markers ==
    {<<>>, <<"[", "50", "%", "]">>, <<"[", " ", "7", "%", "]">>,
     <<"[", " ", " ", "100", "%", "]">>, <<"[", "99999999999", "%", "]">>,
     <<"[", " ", "99999999999", "%", "]">>, <<" ", "[", "50", "%", "]">>}

Bodies ==
    {<<>>, <<"compiling">>,
     <<"error: ", "f.cpp", ":", "12", ":", "3", ": ", "undeclared">>,
     <<"f.cpp", "(", "45", "): ", "error ", "C2065">>,
     <<"f.cpp", "(", "45", "): ", "warning ", "C4101">>}

Lines == {m \o b : m \in Markers, b \in Bodies}

\* A parser just constructed, fed nothing yet.
ParserInit ==
    /\ type \in {"MSVC", "GCC_Clang"}
    /\ m_has_char_number = (type = "GCC_Clang")
    /\ fatal_errors_of \in [BOOLEAN -> BOOLEAN]
    /\ progress = <<>>
    /\ tasks = <<>>
    /\ result = "NotHandled"
    /\ last_line = <<>>
    /\ handled = 0
    /\ targets = <<>>
    /\ bs_files = <<>>
    /\ nodes = <<XMakeProjectNode>>
    /\ done = 0
    /\ bs_done = 0
    /\ returned = FALSE
    /\ target_paths = {}

Init ==
    /\ type = "GCC_Clang"
    /\ m_has_char_number = TRUE
    /\ fatal_errors_of = [b \in BOOLEAN |-> FALSE]
    /\ progress = <<>>
    /\ tasks = <<>>
    /\ result = "NotHandled"
    /\ last_line = <<>>
    /\ handled = 0
    /\ \/ /\ targets \in {Named(l) : l \in TargetLists}
          /\ bs_files = <<<<"xmake.lua">>>>
       \/ /\ targets \in {Named(l) : l \in BsTargetLists}
          /\ bs_files \in SeqUpTo(BsFiles, MaxBsFiles)
    /\ nodes = <<XMakeProjectNode>>
    /\ done = 0
    /\ bs_done = 0
    /\ returned = FALSE
    /\ target_paths = {}

\* buildTree's loop over the targets, one target a step.
BuildTarget ==
    /\ done < Len(targets)
    /\ nodes' = targetLoopBody(nodes, targets[done + 1])
    /\ target_paths' = target_paths \cup {absolutePath(targets[done + 1].defined_in)}
    /\ done' = done + 1
    /\ UNCHANGED <<targets, bs_files, bs_done, returned, parserVars>>

\* buildTree's post-pass, one build-system file a step.
AttachBuildSystemFile ==
    /\ done = Len(targets)
    /\ bs_done < Len(bs_files)
    /\ nodes' = attachProjectFile(nodes, bs_files[bs_done + 1])
    /\ bs_done' = bs_done + 1
    /\ UNCHANGED <<targets, bs_files, done, returned, target_paths, parserVars>>

\* return project_node.
Return ==
    /\ done = Len(targets)
    /\ bs_done = Len(bs_files)
    /\ ~returned
    /\ returned' = TRUE
    /\ UNCHANGED <<targets, bs_files, nodes, done, bs_done, target_paths, parserVars>>

Next == BuildTarget \/ AttachBuildSystemFile \/ Return

Spec == Init /\ [][Next]_vars

\* The output-reading loop: one line of the build's output a step.
HandleLine ==
    /\ handled < MaxLines
    /\ \E line \in Lines :
           /\ handleLine(line)
           /\ last_line' = line
    /\ handled' = handled + 1
    /\ UNCHANGED <<type, m_has_char_number, fatal_errors_of, treeVars>>

ParserNext == HandleLine

ParserSpec == ParserInit /\ [][ParserNext]_vars

\* ------------------------------------------------------ reading the tree

Ids == 1..Len(nodes)

TargetNodeIds == SelectSeq([i \in Ids |-> i], LAMBDA i: nodes[i].kind = "target")

\* The target node of the i-th target (i <= done).
TargetNode(i) == TargetNodeIds[i]

ChildrenNamed(t, name) == {c \in Ids : nodes[c].parent = t /\ nodes[c].name = name}

\* n lies in the file tree of container c: below it through plain folder
\* nodes only.
RECURSIVE IsNestedIn(_, _)
IsNestedIn(n, c) ==
    LET up == nodes[n].parent
    IN up # 0 /\ (up = c \/ (nodes[up].kind = "folder" /\ IsNestedIn(up, c)))

LeavesIn(c, path) ==
    {n \in Ids : nodes[n].kind = "file" /\ nodes[n].path = path /\ IsNestedIn(n, c)}

AllLeavesIn(c) == {n \in Ids : nodes[n].kind = "file" /\ IsNestedIn(n, c)}

IsDegenerate(group) == group = <<>> \/ group[1] \in {".", ""}

GroupNodesAt(path) == {n \in Ids : nodes[n].kind = "group" /\ nodes[n].path = path}

\* ---------------------------------------------------------------- claims

\* C1: for every target built so far with a non-degenerate grouping path and
\* for every cumulative prefix of that path, the tree holds exactly one group
\* node at the prefix; the node at the first segment is a child of the
\* project node, the node at a longer prefix is a child of the node at the
\* prefix one segment shorter, and the target node is a child of the node at
\* the full path.
C1_OneGroupNodePerPrefix ==
    \A i \in 1..done :
        LET g == targets[i].group
        IN ~IsDegenerate(g) =>
           \A k \in 1..Len(g) :
               /\ Cardinality(GroupNodesAt(SubSeq(g, 1, k))) = 1
               /\ \A n \in GroupNodesAt(SubSeq(g, 1, k)) :
                      /\ k = 1 => nodes[n].parent = 1
                      /\ k > 1 => nodes[n].parent \in GroupNodesAt(SubSeq(g, 1, k - 1))
                      /\ k = Len(g) => nodes[TargetNode(i)].parent = n

\* One target node per target built so far, in input order and named after
\* its target; a target without group has its node below the project node.
C10_Invariant ==
    /\ Len(TargetNodeIds) = done
    /\ \A i \in 1..done :
           /\ nodes[TargetNode(i)].name = targets[i].name
           /\ IsDegenerate(targets[i].group) => nodes[TargetNode(i)].parent = 1

C10_Step ==
    (done' = done + 1 /\ IsDegenerate(targets[done + 1].group)) =>
        /\ {n \in 1..Len(nodes') : nodes'[n].kind = "group"}
               = {n \in Ids : nodes[n].kind = "group"}
        /\ nodes'[Len(nodes) + 1].kind = "target"
        /\ nodes'[Len(nodes) + 1].parent = 1

\* C10: the tree holds one target node per target built so far, in input
\* order and named after its target; the node of a target with an empty
\* grouping path or a leading segment "." or "" is a child of the project
\* node, and building such a target adds no group node.
C10_DegenerateGroupAtRoot == []C10_Invariant /\ [][C10_Step]_vars

C10_Witness ==
    /\ done = 2
    /\ targets[1].group = <<"g", "h">>
    /\ targets[2].group = <<".">>
    /\ nodes[TargetNode(2)].parent = 1
    /\ nodes[TargetNode(1)].parent # 1

\* A build-system file made absolute against the source directory, and the
\* directory holding it.
BsAbsolute(file) == IF file[1] = "" /\ Len(file) >= 2 THEN file ELSE src_dir \o file

DirOfFile(file) == IF Len(file) = 2 /\ file[1] = "" THEN RootDir ELSE Front(file)

FolderNodesAt(path) == {n \in Ids : nodes[n].kind # "file" /\ nodes[n].path = path}

ProjectFileNodes == {n \in Ids : nodes[n].kind = "file" /\ nodes[n].ftype = "Project"}

C9_Step ==
    (bs_done' = bs_done + 1) =>
        LET F == BsAbsolute(bs_files[bs_done + 1])
            new == Len(nodes) + 1
        IN IF FolderNodesAt(DirOfFile(F)) # {}
           THEN /\ Len(nodes') = new
                /\ SubSeq(nodes', 1, Len(nodes)) = nodes
                /\ nodes'[new].kind = "file"
                /\ nodes'[new].ftype = "Project"
                /\ nodes'[new].path = F
                /\ nodes'[new].parent \in FolderNodesAt(DirOfFile(F))
           ELSE nodes' = nodes

\* C9: a step of the post-pass on the build-system file F adds, when the tree
\* holds a folder node at F's parent directory, exactly one node: a file node
\* of type Project at F, child of a folder node at that directory; when there
\* is no such folder node it leaves the tree as it was.
C9_ProjectFileAttachment == [][C9_Step]_vars

\* Both cases of C9 in one run: of two build-system files one found its
\* folder below the project node, the other found none.
C9_Witness ==
    /\ returned
    /\ bs_done = 2
    /\ Cardinality(ProjectFileNodes) = 1
    /\ \A n \in ProjectFileNodes : nodes[n].parent # 1

ExternalPackagesOf(i) == ChildrenNamed(TargetNode(i), "External Packages")

ChildSeq(c) == SelectSeq([n \in Ids |-> n], LAMBDA n: nodes[n].parent = c)

\* The content C8 asks of an 'External Packages' container c of target t: one
\* non-project-visible file leaf per package name and per framework name, as
\* direct children.
HoldsPackageLeaves(c, t) ==
    LET names == t.packages \o t.frameworks
        kids == ChildSeq(c)
    IN /\ Len(kids) = Len(names)
       /\ \A k \in 1..Len(names) :
              /\ nodes[kids[k]].kind = "file"
              /\ ~nodes[kids[k]].listInProject
              /\ Last(nodes[kids[k]].path) = names[k]
              /\ Front(nodes[kids[k]].path) = nodes[c].path

\* C8: a target with a package or a framework has exactly one 'External
\* Packages' container, at the directory of its defining file, with one
\* non-project-visible leaf per package and per framework; a target with
\* neither has none.
C8_ExternalPackagesAtDefiningDir ==
    \A i \in 1..done :
        LET t == targets[i]
        IN IF t.packages = <<>> /\ t.frameworks = <<>>
           THEN ExternalPackagesOf(i) = {}
           ELSE /\ Cardinality(ExternalPackagesOf(i)) = 1
                /\ \A c \in ExternalPackagesOf(i) :
                       /\ nodes[c].path = DirOfFile(absoluteFilePath(t.defined_in))
                       /\ HoldsPackageLeaves(c, t)

\* What buildTree does build: the container is at the defining file's path
\* as the target gives it, and a target whose defining file path is empty has
\* none.
ExternalPackagesAtDefiningFile ==
    \A i \in 1..done :
        LET t == targets[i]
        IN IF (t.packages = <<>> /\ t.frameworks = <<>>) \/ t.defined_in = <<"">>
           THEN ExternalPackagesOf(i) = {}
           ELSE /\ Cardinality(ExternalPackagesOf(i)) = 1
                /\ \A c \in ExternalPackagesOf(i) :
                       /\ nodes[c].path = t.defined_in
                       /\ nodes[c].kind = "packages"
                       /\ ~nodes[c].listInProject
                       /\ HoldsPackageLeaves(c, t)

\* C2 as claimed: no two children of one parent have the same path.
C2_AsClaimed ==
    \A a, b \in Ids :
        (a # b /\ nodes[a].parent = nodes[b].parent) => nodes[a].path # nodes[b].path

\* C2 as amended: no two plain folder nodes under one parent have the same
\* path, and no two group nodes of the tree have the same path.
C2_UniqueFolderAndGroupPaths ==
    \A a, b \in Ids :
        a # b =>
            /\ (/\ nodes[a].kind = "folder" /\ nodes[b].kind = "folder"
                /\ nodes[a].parent = nodes[b].parent) => nodes[a].path # nodes[b].path
            /\ (nodes[a].kind = "group" /\ nodes[b].kind = "group")
                   => nodes[a].path # nodes[b].path

\* Three header files in three directories under one container: the folder
\* chain they share exists once.
C2_Witness ==
    /\ returned
    /\ \E c \in Ids :
           /\ nodes[c].name = "Header Files"
           /\ Cardinality(AllLeavesIn(c)) = 3
           /\ \E f \in Ids :
                  /\ nodes[f].kind = "folder"
                  /\ nodes[f].parent = c
                  /\ Cardinality({g \in Ids : nodes[g].kind = "folder" /\ nodes[g].parent = f}) = 3

\* A listed path as the absolute path it denotes: a source relative to the
\* project directory, any other path relative to the working directory.
InProject(f) == IF Len(f) >= 2 /\ f[1] = "" THEN f ELSE project_dir \o f

InCwd(f) ==
    IF Len(f) >= 2 /\ f[1] = "" THEN f ELSE IF f = <<"">> THEN Cwd ELSE Cwd \o f

HeaderLike(f) ==
    Suffix(Last(f)) \in {".inl", ".hpp", ".h", ".mpp", ".hxx", ".tpp", ".ixx"}

AllSources(t) == Flatten(t.sources)

LeafSources(t) == SelectSeq(AllSources(t), LAMBDA f: ~HeaderLike(f))

\* The deepest directory that is an ancestor of every one of the absolute
\* file paths fs (a non-empty sequence).
DeepestCommonDir(fs) ==
    LET dirs == {Front(fs[k]) : k \in 1..Len(fs)}
        d0 == Front(fs[1])
        common == {k \in 1..Len(d0) :
                      \A d \in dirs : Len(d) >= k /\ SubSeq(d, 1, k) = SubSeq(d0, 1, k)}
        deepest == CHOOSE k \in common : \A j \in common : j <= k
    IN IF deepest = 1 THEN RootDir ELSE SubSeq(d0, 1, deepest)

AbsoluteSources(t) == [k \in 1..Len(AllSources(t)) |-> InProject(AllSources(t)[k])]

AbsoluteList(l) == [k \in 1..Len(l) |-> InCwd(l[k])]

\* C3: a bucket container of a target built so far is at the deepest common
\* ancestor directory of the bucket's files.
C3_ContainerAtDeepestCommonDir ==
    \A i \in 1..done :
        LET t == targets[i]
        IN /\ \A c \in ChildrenNamed(TargetNode(i), "Source Files") :
                  InCwd(nodes[c].path) = DeepestCommonDir(AbsoluteSources(t))
           /\ \A c \in ChildrenNamed(TargetNode(i), "Module Files") :
                  InCwd(nodes[c].path) = DeepestCommonDir(AbsoluteList(t.modules))
           /\ \A c \in ChildrenNamed(TargetNode(i), "Header Files") :
                  InCwd(nodes[c].path) = DeepestCommonDir(AbsoluteList(t.headers))

\* The listed file files[k] has exactly one leaf in the one container of that
\* name of target i.
OneLeafFor(i, name, files) ==
    \A k \in 1..Len(files) :
        /\ Cardinality(ChildrenNamed(TargetNode(i), name)) = 1
        /\ \A c \in ChildrenNamed(TargetNode(i), name) :
               Cardinality(LeavesIn(c, InCwd(files[k]))) = 1

LeafPerListing(i, name, files, ftype) ==
    /\ Cardinality(ChildrenNamed(TargetNode(i), name)) <= 1
    /\ \A c \in ChildrenNamed(TargetNode(i), name) :
           /\ Cardinality({n \in AllLeavesIn(c) : nodes[n].ftype = ftype}) = Len(files)
           /\ \A n \in AllLeavesIn(c) : nodes[n].ftype \in {ftype, "Project"}
           /\ \A k \in 1..Len(files) :
                  Cardinality({n \in LeavesIn(c, InCwd(files[k])) : nodes[n].ftype = ftype})
                      = Len(SelectSeq(files, LAMBDA f: InCwd(f) = InCwd(files[k])))

C4_WitnessDuplicate ==
    /\ returned
    /\ Len(targets) = 1
    /\ targets[1].headers = <<<<"b", "y.h">>, <<"c", "z.h">>, <<"b", "y.h">>>>
    /\ \E c \in ChildrenNamed(TargetNode(1), "Header Files") :
           Cardinality(LeavesIn(c, <<"", "w", "b", "y.h">>)) = 2

SourceLeafRule(i) ==
    LET t == targets[i]
    IN \A k \in 1..Len(AllSources(t)) :
           LET f == AllSources(t)[k]
           IN IF HeaderLike(f)
              THEN \A c \in ChildrenNamed(TargetNode(i), "Source Files") :
                       LeavesIn(c, InCwd(f)) = {}
              ELSE \E c \in ChildrenNamed(TargetNode(i), "Source Files") :
                       LeavesIn(c, InCwd(f)) # {}

ErrorSeen == \E k \in 1..Len(tasks) : tasks[k].type = "Error"

C5_Step == (handled' = handled + 1) => (hasFatalErrors' = ErrorSeen')

\* C5: after every handleLine call hasFatalErrors() answers true if a line
\* handled so far (that call's included) has produced a diagnostic of severity
\* Error, and false if none has.
C5_FatalOnceErrorSeen == [][C5_Step]_vars

\* The progress markers whose digits are an integer, with that integer.
ParseableMarkers ==
    {[tokens |-> <<"[", "50", "%", "]">>, value |-> 50],
     [tokens |-> <<"[", " ", "7", "%", "]">>, value |-> 7],
     [tokens |-> <<"[", " ", " ", "100", "%", "]">>, value |-> 100]}

StartsWith(line, tokens) ==
    Len(line) >= Len(tokens) /\ SubSeq(line, 1, Len(tokens)) = tokens

C6_Step ==
    \A m \in ParseableMarkers :
        (handled' = handled + 1 /\ StartsWith(last_line', m.tokens)) =>
            /\ progress' = Append(progress, m.value)
            /\ result' = "Done"
            /\ tasks' = tasks

\* C6: a handleLine call on a line that starts with a progress marker [NN%]
\* emits the one progress notification NN, reports the line consumed and emits
\* no diagnostic task, whatever follows the marker and whatever the dialect.
C6_ProgressBeforeError == [][C6_Step]_vars

\* An MSVC parser that has reported an error and then handles a progress line
\* whose rest is an MSVC error.
C6_Witness ==
    /\ handled = 2
    /\ type = "MSVC"
    /\ last_line = <<"[", " ", "7", "%", "]", "f.cpp", "(", "45", "): ", "error ", "C2065">>
    /\ m_msvc_error_regex(last_line).matched
    /\ Len(tasks) = 1
    /\ progress = <<7>>
    /\ result = "Done"

\* The progress markers whose digits do not fit the integer type.
UnparseableMarkers ==
    {<<"[", "99999999999", "%", "]">>, <<"[", " ", "99999999999", "%", "]">>}

C11_Step ==
    \A m \in UnparseableMarkers :
        (handled' = handled + 1 /\ StartsWith(last_line', m)) =>
            /\ progress' = progress
            /\ tasks' = tasks
            /\ result' = "NotHandled"
            /\ hasFatalErrors' = hasFatalErrors
            /\ UNCHANGED <<type, m_has_char_number, fatal_errors_of>>

\* C11: a handleLine call on a line that has the progress shape [digits%]
\* with digits that are no integer of the integer type emits no progress
\* notification and no diagnostic task, reports the line not consumed and
\* leaves the state of the parser, the answer of hasFatalErrors() included, as
\* it was, whatever follows the marker and whatever the dialect.
C11_UnparseableProgressPassesThrough == [][C11_Step]_vars

\* An MSVC parser that has reported an error and then handles a line whose
\* marker overflows and whose rest is an MSVC error.
C11_Witness ==
    /\ handled = 2
    /\ type = "MSVC"
    /\ last_line = <<"[", " ", "99999999999", "%", "]",
                     "f.cpp", "(", "45", "): ", "error ", "C2065">>
    /\ m_progress_regex(last_line) = "99999999999"
    /\ m_msvc_error_regex(last_line).matched
    /\ result = "NotHandled"
    /\ Len(tasks) = 1
    /\ progress = <<>>

\* C12: the target node of every target built so far is a child of the
\* project node or of a group node whose path is the target's grouping path,
\* never of a node of another kind that has that path, and the node of a
\* target with a non-degenerate grouping path is not a child of the project
\* node.
C12_TargetParentIsRootOrOwnGroup ==
    \A i \in 1..done :
        LET g == targets[i].group
            up == nodes[TargetNode(i)].parent
        IN /\ up = 1 \/ (nodes[up].kind = "group" /\ nodes[up].path = g)
           /\ ~IsDegenerate(g) => up # 1

====
